---- MODULE Spec2Model ----
(***************************************************************************)
(* AuctionMania: the server's bidding state machine (models/Auction.js,    *)
(* services/AuctionService.js, utils/socketHandlers.js, the REST routes of *)
(* index.js) and the clock of one browser (context/AuctionContext.js,      *)
(* hooks/useCountdownTimer.js, components/Dashboard.js).                   *)
(*                                                                         *)
(* Node runs every socket handler to completion, so one handler is one     *)
(* action.  Date.now() is read several times inside a handler; each read   *)
(* is a separate, non-decreasing value of the server clock.                *)
(***************************************************************************)
EXTENDS Integers, Sequences, FiniteSets, TLC

(***************************************************************************)
(* Bounds of the model.                                                    *)
(***************************************************************************)
\* auction duration in clock units (the code uses 5 * 60 * 1000 ms)
Duration == 2
\* the clock may advance by at most this much while one handler runs
HandlerDrift == 1
\* number of BID_PLACED events handled in one behaviour of SpecBidding
MaxBids == 2
\* number of BID_PLACED events handled in one behaviour of Spec
MaxRoomBids == 2
\* the browser's clock runs from 0 to this
MaxLocal == 2
\* number of BID_PLACED events handled in one behaviour of SpecView
MaxViewBids == 3

\* the clock stops one unit after the deadline: every instant from there on
\* is like that one
MaxTime == Duration + 1

(***************************************************************************)
(* JavaScript values.                                                      *)
(***************************************************************************)
\* null (Auction.highestBidder before the first bid)
NULL == "null"

\* A JavaScript number is an IEEE-754 double.  Integers below 2^53 are
\* exact; Huge stands for the double 2^57, whose neighbours are 32 apart,
\* so that adding the increment 10 to it rounds back to 2^57.
Huge == 1000000

\* NaN is a number that no comparison holds of, and that every sum yields
\* again.  It stands outside the range of the amounts of the model.
NaN == -999999

\* x < y and x <= y as JavaScript compares numbers
NumLt(x, y) == x # NaN /\ y # NaN /\ x < y
NumLe(x, y) == x # NaN /\ y # NaN /\ x <= y

\* x + y as the double addition computes it, for y < 16
NumAdd(x, y) == IF x = NaN THEN NaN ELSE IF x >= Huge THEN x ELSE x + y

Num(n) == [type |-> "number", val |-> n]
Str(s) == [type |-> "string", val |-> s]
\* a value that is missing: typeof gives 'undefined'
Undefined == [type |-> "undefined", val |-> NULL]

\* an optional field of a JavaScript object: {} when undefined, else {v}
Field(r, f) == IF f \in DOMAIN r THEN {r[f]} ELSE {}

Min(x, y) == IF x < y THEN x ELSE y

(***************************************************************************)
(* The world of the model: auctions, connections and bid payloads.         *)
(***************************************************************************)
\* ids of the auctions AuctionService creates (uuids in the code).  The
\* registry holds the first of the sample items, and the first two where
\* the auctions are taken against each other.
AuctionIds == {"a1"}
SecondId == "a2"
TwoAuctionIds == AuctionIds \cup {SecondId}
\* an id a client may send that is not in the registry
UnknownId == "zz"
SentIds == AuctionIds \cup {UnknownId}

SampleItems ==
  [a1 |-> [title |-> "Vintage Camera", startingPrice |-> 50],
   a2 |-> [title |-> "Rare Book Collection", startingPrice |-> 30]]

\* connections and the userId each one sent in its handshake query
Sockets == {"s1", "s2"}
QueryUserId == [s1 |-> "u1", s2 |-> "u2"]

\* const userId = socket.handshake.query.userId || socket.id
UserIdOf(s) == IF QueryUserId[s] = "" THEN s ELSE QueryUserId[s]
UserIds == {UserIdOf(s) : s \in Sockets}

\* amounts a client may put in a BID_PLACED payload
AmountNums == {0, 59, 60, 69, 70, Huge}
Amounts == {Num(n) : n \in AmountNums} \cup {Str("abc")}

\* the connection of the browser that the model follows
ClientSocket == "s1"

RoomNames ==
  {<<"auction", i>> : i \in SentIds \cup TwoAuctionIds}
    \cup {<<"user", u>> : u \in UserIds}
    \cup {<<"sid", s>> : s \in Sockets}

VARIABLES
  auctions,      \* AuctionService.auctions: id -> Auction
  clock,         \* the last value Date.now() returned
  connected,     \* sockets whose handlers are installed
  rooms,         \* io.sockets.adapter.rooms: room name -> set of sockets
  last,          \* the last handler run: its input, result and events
  bidsHandled,   \* number of BID_PLACED events handled so far
  successCount,  \* number of BID_SUCCESS events emitted, per auction id
  endedCount,    \* number of 'Auction has ended' answers, per auction id
  client         \* the browser behind ClientSocket: AuctionContext and cards

vars == <<auctions, clock, connected, rooms, last, bidsHandled,
          successCount, endedCount, client>>

\* what the server holds
serverVars == <<auctions, connected, rooms, bidsHandled, successCount,
                endedCount>>

(***************************************************************************)
(* models/Auction.js                                                       *)
(***************************************************************************)
\* constructor(id, title, startingPrice, duration), called at time now
NewAuction(id, title, startingPrice, duration, now) ==
  [id |-> id,
   title |-> title,
   startingPrice |-> startingPrice,
   currentBid |-> startingPrice,
   highestBidder |-> NULL,
   endTime |-> now + duration,
   biddingLock |-> FALSE,
   bidHistory |-> <<>>,
   minBidIncrement |-> 10]

\* mutant: the deadline instant itself still counts as active
isActive_Inclusive(a, now) == now <= a.endTime

\* isActive(), with now the value Date.now() returns
isActive(a, now) == now < a.endTime

\* mutant: no Math.max(0, ...)
getTimeRemaining_Unclamped(a, now) == a.endTime - now

\* getTimeRemaining(), with now the value Date.now() returns
getTimeRemaining(a, now) == IF a.endTime - now > 0 THEN a.endTime - now ELSE 0

getMinimumNextBid(a) == NumAdd(a.currentBid, a.minBidIncrement)

\* mutant: the bid must exceed the minimum by a further increment
BelowMinimum_TwoIncrements(bidAmount, minBid) == NumLt(bidAmount, minBid + 10)

\* mutant: a bid equal to the minimum is refused too
BelowMinimum_OrEqual(bidAmount, minBid) == NumLe(bidAmount, minBid)

\* bidAmount < minBid
BelowMinimum(bidAmount, minBid) == NumLt(bidAmount, minBid)

CommitResult_ReadAfterWrite(a, userId, bidAmount) ==
  [success |-> TRUE,
   message |-> "Bid placed successfully",
   newBid |-> bidAmount,
   previousBid |-> bidAmount,
   previousBidder |-> userId,
   highestBidder |-> userId]

\* the result of an accepted bid; previousBid and previousBidder were read
\* before the write
CommitResult(a, userId, bidAmount) ==
  [success |-> TRUE,
   message |-> "Bid placed successfully",
   newBid |-> bidAmount,
   previousBid |-> a.currentBid,
   previousBidder |-> a.highestBidder,
   highestBidder |-> userId]

\* mutant: an accepted bid moves the deadline
Commit_ExtendsDeadline(a, userId, bidAmount, t) ==
  [auction |->
     [a EXCEPT !.currentBid = bidAmount,
               !.highestBidder = userId,
               !.endTime = @ + 1,
               !.bidHistory = Append(@, [userId |-> userId,
                                         amount |-> bidAmount,
                                         timestamp |-> t])],
   result |-> CommitResult(a, userId, bidAmount)]

\* mutant: the commit forgets to append to bidHistory
Commit_NoHistory(a, userId, bidAmount, t) ==
  [auction |-> [a EXCEPT !.currentBid = bidAmount,
                         !.highestBidder = userId],
   result |-> CommitResult(a, userId, bidAmount)]

\* mutant: the commit records the bid but leaves currentBid as it was
Commit_StalePrice(a, userId, bidAmount, t) ==
  [auction |->
     [a EXCEPT !.highestBidder = userId,
               !.bidHistory = Append(@, [userId |-> userId,
                                         amount |-> bidAmount,
                                         timestamp |-> t])],
   result |-> CommitResult(a, userId, bidAmount)]

\* mutant: the commit records the bid but leaves highestBidder as it was
Commit_StaleLeader(a, userId, bidAmount, t) ==
  [auction |->
     [a EXCEPT !.currentBid = bidAmount,
               !.bidHistory = Append(@, [userId |-> userId,
                                         amount |-> bidAmount,
                                         timestamp |-> t])],
   result |-> CommitResult(a, userId, bidAmount)]

\* The commit of placeBid (lines 64-83): the auction after the bid and the
\* result object.  t is the clock read that stamps the history entry.
Commit(a, userId, bidAmount, t) ==
  [auction |->
     [a EXCEPT !.currentBid = bidAmount,
               !.highestBidder = userId,
               !.bidHistory = Append(@, [userId |-> userId,
                                         amount |-> bidAmount,
                                         timestamp |-> t])],
   result |-> CommitResult(a, userId, bidAmount)]

\* mutant: the minimum is checked before the deadline, so a low bid on an
\* ended auction falls through to the too-low answer
EndedOnEntry_AfterMinimum(a, bidAmount, now) ==
  ~isActive(a, now) /\ ~BelowMinimum(bidAmount, getMinimumNextBid(a))

\* if (!this.isActive()) at the entry of placeBid, read at time now
EndedOnEntry(a, bidAmount, now) == ~isActive(a, now)

\* mutant: no finally block, the lock stays set
ReleaseLock_Never(a) == a

\* finally { this.biddingLock = false; }
ReleaseLock(a) == [a EXCEPT !.biddingLock = FALSE]

\* placeBid(userId, bidAmount).  t1, t2 and t3 are the clock reads of the
\* first isActive(), the second isActive() and the history timestamp.  The
\* value is the auction afterwards (the finally block has released the
\* lock), the result object and the last clock value read.
placeBid(a, userId, bidAmount, t1, t2, t3) ==
  IF EndedOnEntry(a, bidAmount, t1)
  THEN [auction |-> a, now |-> t1,
        result |-> [success |-> FALSE, message |-> "Auction has ended"]]
  ELSE IF BelowMinimum(bidAmount, getMinimumNextBid(a))
  THEN [auction |-> a, now |-> t1,
        result |-> [success |-> FALSE,
                    message |-> "Bid must be at least",
                    minimumBid |-> getMinimumNextBid(a)]]
  ELSE IF a.biddingLock
  THEN [auction |-> a, now |-> t1,
        result |-> [success |-> FALSE,
                    message |-> "Another bid is being processed, please try again"]]
  ELSE LET locked == [a EXCEPT !.biddingLock = TRUE] IN
       IF ~isActive(locked, t2)
       THEN [auction |-> ReleaseLock(locked), now |-> t2,
             result |-> [success |-> FALSE, message |-> "Auction has ended"]]
       ELSE IF BelowMinimum(bidAmount, getMinimumNextBid(locked))
       THEN [auction |-> ReleaseLock(locked), now |-> t2,
             result |-> [success |-> FALSE,
                         message |-> "Outbid!",
                         currentBid |-> locked.currentBid,
                         highestBidder |-> locked.highestBidder]]
       ELSE LET c == Commit(locked, userId, bidAmount, t3) IN
            [auction |-> ReleaseLock(c.auction),
             now |-> t3,
             result |-> c.result]

\* mutant: the snapshot is that of the auction as it was created
getState_AsCreated(a, tr, ta) ==
  [id |-> a.id,
   title |-> a.title,
   startingPrice |-> a.startingPrice,
   currentBid |-> a.startingPrice,
   highestBidder |-> NULL,
   endTime |-> a.endTime,
   timeRemaining |-> getTimeRemaining(a, tr),
   isActive |-> isActive(a, ta),
   minBidIncrement |-> a.minBidIncrement]

\* getState(): tr and ta are the clock reads of getTimeRemaining() and
\* isActive()
getState(a, tr, ta) ==
  [id |-> a.id,
   title |-> a.title,
   startingPrice |-> a.startingPrice,
   currentBid |-> a.currentBid,
   highestBidder |-> a.highestBidder,
   endTime |-> a.endTime,
   timeRemaining |-> getTimeRemaining(a, tr),
   isActive |-> isActive(a, ta),
   minBidIncrement |-> a.minBidIncrement]

(***************************************************************************)
(* services/AuctionService.js                                              *)
(***************************************************************************)
\* initializeSampleAuctions(), run once at time now, for the items ids
initializeSampleAuctions(ids, now) ==
  [id \in ids |->
     NewAuction(id, SampleItems[id].title, SampleItems[id].startingPrice,
                Duration, now)]

\* typeof bidAmount !== 'number' || bidAmount <= 0
InvalidAmount(bidAmount) ==
  bidAmount.type # "number" \/ NumLe(bidAmount.val, 0)

\* mutant: an unknown id is answered like an invalid amount
NotFoundResult_AsInvalid ==
  [success |-> FALSE, message |-> "Invalid bid amount", statusCode |-> 400]

\* the result of placeBid when this.auctions.get(auctionId) finds nothing
NotFoundResult ==
  [success |-> FALSE, message |-> "Auction not found", statusCode |-> 404]

\* mutant: the auctions share one bidHistory array
Mutated_SharedHistory(aucs, auctionId, a) ==
  [k \in DOMAIN aucs |->
     IF k = auctionId THEN a ELSE [aucs[k] EXCEPT !.bidHistory = a.bidHistory]]

\* the registry after placeBid has run on the auction this.auctions.get
\* returned: a is that auction as the call left it, no other was touched
Mutated(aucs, auctionId, a) == [aucs EXCEPT ![auctionId] = a]

\* AuctionService.placeBid(auctionId, userId, bidAmount) on the registry
\* aucs.  The value is the registry afterwards, the result object and the
\* last clock value read (t0 when no clock was read).
ServicePlaceBid(aucs, auctionId, userId, bidAmount, t0, t1, t2, t3) ==
  IF auctionId \notin DOMAIN aucs
  THEN [auctions |-> aucs, now |-> t0, result |-> NotFoundResult]
  ELSE IF InvalidAmount(bidAmount)
  THEN [auctions |-> aucs, now |-> t0,
        result |-> [success |-> FALSE, message |-> "Invalid bid amount",
                    statusCode |-> 400]]
  ELSE LET r == placeBid(aucs[auctionId], userId, bidAmount.val, t1, t2, t3)
           extra == [auctionId |-> auctionId,
                     statusCode |-> IF r.result.success THEN 200 ELSE 400]
       IN [auctions |-> Mutated(aucs, auctionId, r.auction),
           now |-> r.now,
           result |-> [f \in DOMAIN r.result \cup DOMAIN extra |->
                         IF f \in DOMAIN extra THEN extra[f]
                         ELSE r.result[f]]]

\* getAllAuctions(): the state of every auction.  tr and ta are the clock
\* reads of getState(); the registry of the model holds one auction.
getAllAuctions(aucs, tr, ta) ==
  [i \in DOMAIN aucs |-> getState(aucs[i], tr, ta)]

\* an array value, as against null
Arr(seq) == [type |-> "array", val |-> seq]

\* AuctionService.getBidHistory(auctionId) on the registry aucs
getBidHistory(aucs, auctionId) ==
  IF auctionId \in DOMAIN aucs THEN Arr(aucs[auctionId].bidHistory)
  ELSE Arr(<<>>)

(***************************************************************************)
(* utils/socketHandlers.js                                                 *)
(***************************************************************************)
\* mutant: the event goes to every connection (io.emit)
InRoom_Everyone(room) == connected

\* io.to(room): the sockets that are in the room now
InRoom(room) == rooms[room]

\* the clock reads a handler may make after the read that returned t
Reads(t) == t .. Min(clock + HandlerDrift, MaxTime)

\* mutant: the leader who raises their own bid is notified too
NotifiesOutbid_AnyLeader(result, userId) ==
  /\ result.previousBidder # NULL
  /\ result.previousBidder # ""

\* result.previousBidder && result.previousBidder !== userId
NotifiesOutbid(result, userId) ==
  /\ result.previousBidder # NULL
  /\ result.previousBidder # ""
  /\ result.previousBidder # userId

\* the events the BID_PLACED handler of socket s emits for the result of
\* AuctionService.placeBid, in order.  The timestamp field of an event
\* (Date.now() when it is emitted) is left out: nothing on the server reads
\* it back.
BidEvents(s, auctionId, userId, result) ==
  IF result.success
  THEN <<[event |-> "BID_UPDATE",
          to |-> InRoom(<<"auction", auctionId>>),
          auctionId |-> auctionId,
          newBid |-> result.newBid,
          highestBidder |-> result.highestBidder,
          previousBidder |-> result.previousBidder,
          previousBid |-> result.previousBid],
         [event |-> "BID_SUCCESS",
          to |-> {s},
          auctionId |-> auctionId,
          message |-> "Your bid was accepted!",
          newBid |-> result.newBid]>>
       \o (IF NotifiesOutbid(result, userId)
           THEN <<[event |-> "OUTBID",
                   to |-> InRoom(<<"user", result.previousBidder>>),
                   auctionId |-> auctionId,
                   newBid |-> result.newBid,
                   outbidBy |-> userId]>>
           ELSE <<>>)
  ELSE <<[event |-> "BID_ERROR",
          to |-> {s},
          auctionId |-> auctionId,
          message |-> result.message,
          currentBid |-> Field(result, "currentBid"),
          minimumBid |-> Field(result, "minimumBid")]>>

\* io.on('connection'): initializeSocketHandlers installs the handlers; the
\* socket is in the room named by its own id and in no other
Connect(s) ==
  /\ s \notin connected
  /\ connected' = connected \cup {s}
  /\ rooms' = [rooms EXCEPT ![<<"sid", s>>] = {s}]
  /\ last' = [handler |-> "connection", socket |-> s, events |-> <<>>]
  /\ UNCHANGED client
  /\ UNCHANGED <<auctions, clock, bidsHandled, successCount, endedCount>>

\* socket.on('disconnect'): the socket has left every room; the handler
\* only logs
Disconnect(s) ==
  /\ s \in connected
  /\ connected' = connected \ {s}
  /\ rooms' = [r \in RoomNames |-> rooms[r] \ {s}]
  /\ last' = [handler |-> "disconnect", socket |-> s, events |-> <<>>]
  /\ UNCHANGED client
  /\ UNCHANGED <<auctions, clock, bidsHandled, successCount, endedCount>>

\* socket.on('JOIN_AUCTION', auctionId)
JoinAuction(s, auctionId) ==
  /\ s \in connected
  /\ \E tr \in Reads(clock) : \E ta \in Reads(tr) : \E ts \in Reads(ta) :
       LET room == <<"auction", auctionId>>
           joined == [rooms EXCEPT ![room] = @ \cup {s}]
           found == auctionId \in DOMAIN auctions
       IN /\ rooms' = joined
          /\ last' =
               [handler |-> "JOIN_AUCTION", socket |-> s,
                auctionId |-> auctionId,
                events |->
                  IF found
                  THEN <<[event |-> "AUCTION_STATE",
                          to |-> {s},
                          auction |-> getState(auctions[auctionId], tr, ta),
                          serverTime |-> ts],
                         [event |-> "USER_JOINED",
                          to |-> joined[room],
                          auctionId |-> auctionId,
                          totalUsers |-> Cardinality(joined[room])]>>
                  ELSE <<>>]
          /\ clock' = IF found THEN ts ELSE clock
  /\ UNCHANGED client
  /\ UNCHANGED <<auctions, connected, bidsHandled, successCount, endedCount>>

\* mutant: the handler announces the departure and forgets socket.leave
LeaveAuction_StaysMember(s, auctionId) ==
  /\ s \in connected
  /\ LET room == <<"auction", auctionId>>
         left == [rooms EXCEPT ![room] = @ \ {s}]
     IN /\ rooms' = rooms
        /\ last' = [handler |-> "LEAVE_AUCTION", socket |-> s,
                    auctionId |-> auctionId,
                    wasMember |-> s \in rooms[room],
                    events |-> <<[event |-> "USER_LEFT",
                                  to |-> left[room],
                                  auctionId |-> auctionId,
                                  totalUsers |-> Cardinality(left[room])]>>]
  /\ UNCHANGED client
  /\ UNCHANGED <<auctions, clock, connected, bidsHandled, successCount,
                 endedCount>>

\* socket.on('LEAVE_AUCTION', auctionId).  The record kept in last notes
\* whether the socket was in the room when the handler started.
LeaveAuction(s, auctionId) ==
  /\ s \in connected
  /\ LET room == <<"auction", auctionId>>
         left == [rooms EXCEPT ![room] = @ \ {s}]
     IN /\ rooms' = left
        /\ last' = [handler |-> "LEAVE_AUCTION", socket |-> s,
                    auctionId |-> auctionId,
                    wasMember |-> s \in rooms[room],
                    events |-> <<[event |-> "USER_LEFT",
                                  to |-> left[room],
                                  auctionId |-> auctionId,
                                  totalUsers |-> Cardinality(left[room])]>>]
  /\ UNCHANGED client
  /\ UNCHANGED <<auctions, clock, connected, bidsHandled, successCount,
                 endedCount>>

\* socket.on('BID_PLACED', data) with data = {auctionId, amount}.  The
\* record kept in last holds what the handler was given (the socket, the
\* payload, the registry as it was), the first and the last clock
\* value it read (the clock before, if it read none) and what it did (the
\* result of AuctionService.placeBid and the events emitted).
BidPlaced(s, auctionId, amount) ==
  /\ s \in connected
  /\ \E t1 \in Reads(clock) : \E t2 \in Reads(t1) : \E t3 \in Reads(t2) :
       LET userId == UserIdOf(s)
           sp == ServicePlaceBid(auctions, auctionId, userId, amount,
                                 clock, t1, t2, t3)
           events == BidEvents(s, auctionId, userId, sp.result)
       IN      /\ auctions' = sp.auctions
               /\ clock' = sp.now
               /\ last' =
                    [handler |-> "BID_PLACED",
                     socket |-> s,
                     auctionId |-> auctionId,
                     userId |-> userId,
                     amount |-> amount,
                     start |-> Min(t1, sp.now),
                     finish |-> sp.now,
                     before |-> auctions,
                     result |-> sp.result,
                     events |-> events]
               /\ bidsHandled' = bidsHandled + 1
               /\ successCount' =
                    [successCount EXCEPT ![auctionId] =
                       @ + Cardinality({i \in 1..Len(events) :
                                          events[i].event = "BID_SUCCESS"})]
               /\ endedCount' =
                    [endedCount EXCEPT ![auctionId] =
                       IF sp.result.message = "Auction has ended"
                       THEN @ + 1 ELSE @]
  /\ UNCHANGED client
  /\ UNCHANGED <<connected, rooms>>

\* socket.on('BID_PLACED', data) with data null or undefined: the
\* destructuring const { auctionId, amount } = data throws a TypeError
\* before anything else is done, and nothing is emitted.
BidPlacedNoData(s, data) ==
  /\ s \in connected
  /\ data \in {NULL, "undefined"}
  /\ last' = [handler |-> "BID_PLACED",
              socket |-> s,
              data |-> data,
              threw |-> "TypeError",
              events |-> <<>>]
  /\ bidsHandled' = bidsHandled + 1
  /\ UNCHANGED client
  /\ UNCHANGED <<auctions, clock, connected, rooms, successCount,
                 endedCount>>

\* A call AuctionService.placeBid(auctionId, userId, bidAmount) made on the
\* exported service object itself, with arguments of any kind: the record
\* kept in last is that of a BID_PLACED run, without a socket and without
\* events.
PlaceBidCall(auctionId, userId, bidAmount) ==
  /\ \E t1 \in Reads(clock) : \E t2 \in Reads(t1) : \E t3 \in Reads(t2) :
       LET sp == ServicePlaceBid(auctions, auctionId, userId, bidAmount,
                                 clock, t1, t2, t3)
       IN /\ auctions' = sp.auctions
          /\ clock' = sp.now
          /\ last' =
               [handler |-> "placeBid",
                auctionId |-> auctionId,
                userId |-> userId,
                amount |-> bidAmount,
                start |-> Min(t1, sp.now),
                finish |-> sp.now,
                before |-> auctions,
                result |-> sp.result,
                events |-> <<>>]
          /\ bidsHandled' = bidsHandled + 1
          /\ endedCount' =
               [endedCount EXCEPT ![auctionId] =
                  IF sp.result.message = "Auction has ended"
                  THEN @ + 1 ELSE @]
  /\ UNCHANGED client
  /\ UNCHANGED <<connected, rooms, successCount>>

\* mutant: io.emit in place of socket.emit
HeartbeatAck_Broadcast(s, clientTime, t) ==
  [event |-> "HEARTBEAT_ACK",
   to |-> connected,
   serverTime |-> t,
   clientTime |-> clientTime]

\* the HEARTBEAT_ACK that answers a HEARTBEAT of socket s at server time t
HeartbeatAck(s, clientTime, t) ==
  [event |-> "HEARTBEAT_ACK",
   to |-> {s},
   serverTime |-> t,
   clientTime |-> clientTime]

\* mutant: the server takes the client's clock for its own and moves the
\* deadlines by the difference
Heartbeat_TrustsClient(s, clientTime) ==
  /\ s \in connected
  /\ \E t \in Reads(clock) :
       /\ auctions' =
            [i \in DOMAIN auctions |->
               [auctions[i] EXCEPT !.endTime =
                  IF clientTime = {} THEN @
                  ELSE @ + (CHOOSE n \in clientTime : TRUE) - t]]
       /\ last' = [handler |-> "HEARTBEAT",
                   socket |-> s,
                   clientTime |-> clientTime,
                   events |-> <<HeartbeatAck(s, clientTime, t)>>]
       /\ clock' = t
  /\ UNCHANGED client
  /\ UNCHANGED <<connected, rooms, bidsHandled, successCount, endedCount>>

\* socket.on('HEARTBEAT', clientData).  clientTime is clientData?.clientTime:
\* {} when it is undefined, else {n}.
Heartbeat(s, clientTime) ==
  /\ s \in connected
  /\ \E t \in Reads(clock) :
       /\ last' = [handler |-> "HEARTBEAT",
                   socket |-> s,
                   clientTime |-> clientTime,
                   events |-> <<HeartbeatAck(s, clientTime, t)>>]
       /\ clock' = t
  /\ UNCHANGED client
  /\ UNCHANGED <<auctions, connected, rooms, bidsHandled, successCount,
                 endedCount>>

\* socket.on('GET_AUCTION_STATE', auctionId): the snapshot, or null for an
\* id that is not in the registry, goes to the socket with the server time
GetAuctionState(s, auctionId) ==
  /\ s \in connected
  /\ \E tr \in Reads(clock) : \E ta \in Reads(tr) : \E ts \in Reads(ta) :
       /\ last' = [handler |-> "GET_AUCTION_STATE",
                   socket |-> s,
                   auctionId |-> auctionId,
                   events |->
                     <<[event |-> "AUCTION_STATE",
                        to |-> {s},
                        auction |->
                          IF auctionId \in DOMAIN auctions
                          THEN getState(auctions[auctionId], tr, ta)
                          ELSE NULL,
                        serverTime |-> ts]>>]
       /\ clock' = ts
  /\ UNCHANGED client
  /\ UNCHANGED <<auctions, connected, rooms, bidsHandled, successCount,
                 endedCount>>

(***************************************************************************)
(* index.js: the REST routes                                               *)
(***************************************************************************)
\* app.get('/items')
GetItems ==
  /\ \E tr \in Reads(clock) : \E ta \in Reads(tr) : \E ts \in Reads(ta) :
       /\ last' = [handler |-> "GET /items",
                   status |-> 200,
                   body |-> [success |-> TRUE,
                             data |-> getAllAuctions(auctions, tr, ta),
                             serverTime |-> ts],
                   events |-> <<>>]
       /\ clock' = ts
  /\ UNCHANGED client
  /\ UNCHANGED <<auctions, connected, rooms, bidsHandled, successCount,
                 endedCount>>

\* app.get('/items/:auctionId/bid-history'): the record kept in last holds
\* the id asked for, the status and the body of the response
GetBidHistory(auctionId) ==
  /\ \E t \in Reads(clock) :
       LET history == getBidHistory(auctions, auctionId)
           isNull == history.type = "null"
       IN /\ last' =
               [handler |-> "GET /items/:auctionId/bid-history",
                auctionId |-> auctionId,
                status |-> IF isNull THEN 404 ELSE 200,
                body |-> IF isNull
                         THEN [success |-> FALSE,
                               message |-> "Auction not found"]
                         ELSE [success |-> TRUE,
                               data |-> history.val,
                               serverTime |-> t],
                events |-> <<>>]
          /\ clock' = IF isNull THEN clock ELSE t
  /\ UNCHANGED client
  /\ UNCHANGED <<auctions, connected, rooms, bidsHandled, successCount,
                 endedCount>>

(***************************************************************************)
(* The browser: context/AuctionContext.js, hooks/useCountdownTimer.js,     *)
(* components/Dashboard.js.  A client handler is one action: the state     *)
(* updates it makes, the render that follows and the effects of that       *)
(* render.  Date.now() in the browser is localNow.                         *)
(***************************************************************************)
\* the state after the first render: timeOffset is useState(0), there are
\* no auctions and so no cards; synced tells whether syncServerTime has
\* run.  The serverTime state is set and never read, and is left out.
\* auctions holds what the context state of that name tells of the price
\* of each auction, userBids is the context state of that name, and
\* inactive holds the cards whose isActive state is false.
NewClient ==
  [localNow |-> 0,
   timeOffset |-> 0,
   synced |-> FALSE,
   cards |-> [i \in {} |-> NULL],
   auctions |-> [i \in {} |-> NULL],
   userBids |-> [i \in {} |-> NULL],
   inactive |-> {}]

\* const [userId] = useState(...) of the Dashboard, which the socket sends
\* in its handshake query
ClientUserId == UserIdOf(ClientSocket)

\* mutant: the new sample is averaged with the offset held before
syncServerTime_Smoothing(c, newServerTime) ==
  [c EXCEPT !.timeOffset = (@ + (newServerTime - c.localNow)) \div 2,
            !.synced = TRUE]

\* syncServerTime(newServerTime)
syncServerTime(c, newServerTime) ==
  [c EXCEPT !.timeOffset = newServerTime - c.localNow,
            !.synced = TRUE]

\* mutant: the countdown is taken from the local clock alone
getClientServerTime_LocalOnly(c) == c.localNow

\* getClientServerTime()
getClientServerTime(c) == c.localNow + c.timeOffset

\* calculateTimeRemaining() of the card of an auction that ends at endTime
calculateTimeRemaining(c, endTime) ==
  IF endTime - getClientServerTime(c) > 0
  THEN endTime - getClientServerTime(c) ELSE 0

\* an AuctionCard whose countdown has just been computed
Card(c, endTime) ==
  [endTime |-> endTime,
   timeRemaining |-> calculateTimeRemaining(c, endTime),
   isExpired |-> calculateTimeRemaining(c, endTime) = 0]

\* setAuctions: the auctions listed in data (id -> auction object) and
\* their cards.  A card that exists keeps its countdown state, a new card
\* starts with useState(0) and useState(false).
WithAuctions(c, data) ==
  [c EXCEPT !.cards =
              [i \in DOMAIN data |->
                 IF i \in DOMAIN c.cards
                 THEN [c.cards[i] EXCEPT !.endTime = data[i].endTime]
                 ELSE [endTime |-> data[i].endTime, timeRemaining |-> 0,
                       isExpired |-> FALSE]],
            !.auctions =
              [i \in DOMAIN data |->
                 [currentBid |-> data[i].currentBid,
                  highestBidder |-> data[i].highestBidder]]]

\* the auction objects the context state holds, as far as the model keeps
\* them
Listed(c) ==
  [i \in DOMAIN c.cards |->
     [endTime |-> c.cards[i].endTime,
      currentBid |-> c.auctions[i].currentBid,
      highestBidder |-> c.auctions[i].highestBidder]]

\* the effect of AuctionCard that runs when isExpired or isActive changed:
\* if (isExpired && isActive) setIsActive(false)
CardEffect(c) ==
  [c EXCEPT !.inactive = @ \cup {i \in DOMAIN c.cards : c.cards[i].isExpired}]

\* The render after the state c0 has become c1: the effect of
\* useCountdownTimer runs again for a card that is new, or whose endTime
\* changed, or when timeOffset changed (getClientServerTime is a new
\* function then), and computes the countdown at once.
Render(c0, c1) ==
  CardEffect(
    [c1 EXCEPT !.cards =
       [i \in DOMAIN c1.cards |->
          IF \/ i \notin DOMAIN c0.cards
             \/ c0.cards[i].endTime # c1.cards[i].endTime
             \/ c0.timeOffset # c1.timeOffset
          THEN Card(c1, c1.cards[i].endTime)
          ELSE c1.cards[i]]])

\* the record of a client handler run that took a server time sample
SampleRun(name, serverTime) ==
  [handler |-> name,
   serverTime |-> serverTime,
   receivedAt |-> client.localNow,
   before |-> client,
   events |-> <<>>]

\* handleHeartbeatAck(data): the HEARTBEAT_ACK the server has just sent to
\* the browser's connection arrives
HandleHeartbeatAck ==
  /\ ClientSocket \in connected
  /\ last.handler = "HEARTBEAT"
  /\ ClientSocket \in last.events[1].to
  /\ LET serverTime == last.events[1].serverTime
     IN /\ client' = Render(client, syncServerTime(client, serverTime))
        /\ last' = SampleRun("handleHeartbeatAck", serverTime)
  /\ UNCHANGED <<auctions, clock, connected, rooms, bidsHandled,
                 successCount, endedCount>>

\* handleAuctionState(data): the AUCTION_STATE that answers the browser's
\* JOIN_AUCTION arrives
HandleAuctionState ==
  /\ ClientSocket \in connected
  /\ last.handler = "JOIN_AUCTION"
  /\ last.events # <<>>
  /\ ClientSocket \in last.events[1].to
  /\ LET serverTime == last.events[1].serverTime
         auction == last.events[1].auction
         data == [i \in DOMAIN client.cards |->
                    IF i = auction.id THEN auction ELSE Listed(client)[i]]
     IN /\ client' =
             Render(client,
                    WithAuctions(syncServerTime(client, serverTime), data))
        /\ last' = SampleRun("handleAuctionState", serverTime)
  /\ UNCHANGED <<auctions, clock, connected, rooms, bidsHandled,
                 successCount, endedCount>>

\* loadAuctions(): the response of GET /items arrives
LoadAuctions ==
  /\ last.handler = "GET /items"
  /\ LET serverTime == last.body.serverTime
         data == last.body.data
     IN /\ client' =
             Render(client,
                    syncServerTime(WithAuctions(client, data), serverTime))
        /\ last' = SampleRun("loadAuctions", serverTime)
  /\ UNCHANGED <<auctions, clock, connected, rooms, bidsHandled,
                 successCount, endedCount>>

\* the interval of useCountdownTimer fires for the card of auction i; it
\* is cleared once the countdown has reached 0
CountdownTick(i) ==
  /\ i \in DOMAIN client.cards
  /\ client.cards[i].timeRemaining > 0
  /\ client' =
       CardEffect([client EXCEPT !.cards[i] = Card(client, @.endTime)])
  /\ UNCHANGED <<auctions, clock, connected, rooms, last, bidsHandled,
                 successCount, endedCount>>

\* the browser's clock advances
ClientTick ==
  /\ client.localNow < MaxLocal
  /\ client' = [client EXCEPT !.localNow = @ + 1]
  /\ UNCHANGED <<auctions, clock, connected, rooms, last, bidsHandled,
                 successCount, endedCount>>

\* updateUserBid(auctionId, isWinning)
updateUserBid(c, auctionId, isWinning) ==
  [c EXCEPT !.userBids =
     [i \in DOMAIN @ \cup {auctionId} |->
        IF i = auctionId THEN isWinning ELSE @[i]]]

\* mutant: the new price is taken and the new leader is not
handleBidUpdate_PriceOnly(c, data) ==
  [c EXCEPT !.auctions =
     [i \in DOMAIN @ |->
        IF i = data.auctionId
        THEN [@[i] EXCEPT !.currentBid = data.newBid]
        ELSE @[i]]]

\* handleBidUpdate(data): the auction of that id, if listed, takes the new
\* price and leader; userBids is set if the leader is this user, and is
\* left as it is if not
handleBidUpdate(c, data) ==
  LET shown == [c EXCEPT !.auctions =
                  [i \in DOMAIN @ |->
                     IF i = data.auctionId
                     THEN [@[i] EXCEPT !.currentBid = data.newBid,
                                       !.highestBidder = data.highestBidder]
                     ELSE @[i]]]
  IN IF data.highestBidder = ClientUserId
     THEN updateUserBid(shown, data.auctionId, TRUE)
     ELSE shown

\* handleBidError(data) and handleBidSuccess(data): console.log and nothing
\* else
handleBidError(c, data) == c
handleBidSuccess(c, data) == c

\* handleOutbid(data)
handleOutbid(c, data) == updateUserBid(c, data.auctionId, FALSE)

\* the events the browser has a handler for
ClientEvents ==
  {"AUCTION_STATE", "HEARTBEAT_ACK", "BID_UPDATE", "BID_ERROR",
   "BID_SUCCESS", "OUTBID"}

\* the events of a server handler run that are on their way to the browser
ForClient(run) ==
  SelectSeq(run.events,
            LAMBDA e : e.event \in ClientEvents /\ ClientSocket \in e.to)

\* the browser's handlers applied to events in the order they were
\* emitted.  useSocket registers each handler twice, so each runs twice for
\* one event; the second run finds what the first has left and changes
\* nothing.
RECURSIVE Receive(_, _)
Receive(c, events) ==
  IF events = <<>> THEN c
  ELSE LET e == Head(events)
           handled ==
             CASE e.event = "BID_UPDATE" -> handleBidUpdate(c, e)
               [] e.event = "BID_ERROR" -> handleBidError(c, e)
               [] e.event = "BID_SUCCESS" -> handleBidSuccess(c, e)
               [] e.event = "OUTBID" -> handleOutbid(c, e)
               [] OTHER -> c
       IN Receive(handled, Tail(events))

\* the events the BID_PLACED handler has just sent to the browser's
\* connection arrive, in the order they were emitted.  The record kept in
\* last holds them and the auction they are about.
ReceiveBidEvents ==
  /\ ClientSocket \in connected
  /\ last.handler = "BID_PLACED"
  /\ ForClient(last) # <<>>
  /\ client' = Render(client, Receive(client, ForClient(last)))
  /\ last' = [handler |-> "bid events",
              auctionId |-> last.auctionId,
              received |-> ForClient(last),
              before |-> client,
              events |-> <<>>]
  /\ UNCHANGED <<auctions, clock, connected, rooms, bidsHandled,
                 successCount, endedCount>>

\* the bid button of the card of auction i is enabled and handleBidClick
\* passes the click on: neither !isActive nor isExpired
CardAcceptsBid(c, i) ==
  /\ i \notin c.inactive
  /\ ~c.cards[i].isExpired

\* AuctionCard.handleBidClick on the card of auction i, Dashboard.handleBid
\* and the BID_PLACED handler of the server: a card that is active and not
\* expired offers the price it shows plus 10 over the connected socket
BidClick(i) ==
  /\ i \in DOMAIN client.cards
  /\ CardAcceptsBid(client, i)
  /\ BidPlaced(ClientSocket, i, Num(NumAdd(client.auctions[i].currentBid, 10)))

\* the server clock advances while no handler runs
Tick ==
  /\ clock < MaxTime
  /\ clock' = clock + 1
  /\ UNCHANGED client
  /\ UNCHANGED <<auctions, connected, rooms, last, bidsHandled,
                 successCount, endedCount>>

\* the server has started: the sample auctions ids exist, nobody is
\* connected
Started(ids) ==
  /\ clock = 0
  /\ auctions = initializeSampleAuctions(ids, 0)
  /\ connected = {}
  /\ rooms = [r \in RoomNames |-> {}]
  /\ last = [handler |-> "none", events |-> <<>>]
  /\ bidsHandled = 0
  /\ successCount = [i \in SentIds \cup TwoAuctionIds |-> 0]
  /\ endedCount = [i \in SentIds \cup TwoAuctionIds |-> 0]
  /\ client = NewClient

Init == Started(AuctionIds)

\* the same with two auctions in the registry
InitTwo == Started(TwoAuctionIds)

\* amounts a client may put in a BID_PLACED payload, in Spec
RoomAmounts == {Num(59), Num(60), Num(70)}

\* The whole server: connections, rooms, bids and the clock.
Next ==
  \/ \E s \in Sockets : Connect(s)
  \/ \E s \in Sockets : Disconnect(s)
  \/ \E s \in Sockets, i \in SentIds : JoinAuction(s, i)
  \/ \E s \in Sockets, i \in SentIds : LeaveAuction(s, i)
  \/ \E s \in Sockets, i \in SentIds, m \in RoomAmounts :
       bidsHandled < MaxRoomBids /\ BidPlaced(s, i, m)
  \/ Tick

Spec == Init /\ [][Next]_vars

\* The bidding state machine alone: clients connect and send bids of every
\* kind while the clock runs.  Rooms and disconnections change no auction
\* and are left to Spec.
NextBidding ==
  \/ \E s \in Sockets : Connect(s)
  \/ \E s \in Sockets, i \in SentIds, m \in Amounts :
       bidsHandled < MaxBids /\ BidPlaced(s, i, m)
  \/ Tick

SpecBidding == Init /\ [][NextBidding]_vars

\* arguments of a call of AuctionService.placeBid: bidder ids, among them
\* the empty one, and amounts of every kind
ServiceUserIds == {"u1", ""}
ServiceAmounts ==
  {Num(-5), Num(0), Num(60), Num(70), Num(NaN), Str("60"), Undefined}

\* AuctionService.placeBid as an operation of its own, called with
\* arguments of every kind while the clock runs.
NextService ==
  \/ \E i \in SentIds, u \in ServiceUserIds, m \in ServiceAmounts :
       bidsHandled < MaxBids /\ PlaceBidCall(i, u, m)
  \/ Tick

SpecService == Init /\ [][NextService]_vars

\* the last handler run ended with an exception
Threw(run) == "threw" \in DOMAIN run

\* BID_PLACED with payloads of every shape: an object with the two fields
\* (a missing amount is undefined), null, or nothing at all.  No handler
\* of uncaughtException is installed, so an exception that leaves a
\* handler ends the process: nothing runs after it.
NextPayload ==
  \/ \E s \in Sockets : ~Threw(last) /\ Connect(s)
  \/ \E s \in Sockets, i \in SentIds, m \in Amounts \cup {Undefined} :
       ~Threw(last) /\ bidsHandled < MaxBids /\ BidPlaced(s, i, m)
  \/ \E s \in Sockets, d \in {NULL, "undefined"} :
       ~Threw(last) /\ bidsHandled < MaxBids /\ BidPlacedNoData(s, d)
  \/ ~Threw(last) /\ Tick

SpecPayload == Init /\ [][NextPayload]_vars

\* The bid-history query beside the bidding: clients connect and bid, and
\* the history of any id, registered or not, is asked for over HTTP.
NextHistory ==
  \/ \E s \in Sockets : Connect(s)
  \/ \E s \in Sockets, i \in SentIds, m \in RoomAmounts :
       bidsHandled < MaxBids /\ BidPlaced(s, i, m)
  \/ \E i \in SentIds : GetBidHistory(i)
  \/ Tick

SpecHistory == Init /\ [][NextHistory]_vars

\* values a client may send as clientTime in HEARTBEAT, or none
ClientTimes == {{}, {0}, {MaxLocal}}

\* Bidding beside client clock data: the browser's connection bids and sends
\* heartbeats with a clientTime of any value, the acknowledgements arrive
\* and set the browser's offset, and both clocks run.
NextClockData ==
  \/ Connect(ClientSocket)
  \/ \E i \in AuctionIds, m \in {Num(60), Num(70)} :
       bidsHandled < MaxBids /\ BidPlaced(ClientSocket, i, m)
  \/ \E ct \in ClientTimes : Heartbeat(ClientSocket, ct)
  \/ HandleHeartbeatAck
  \/ ClientTick
  \/ Tick

SpecClockData == Init /\ [][NextClockData]_vars

\* The browser and its clock: the browser's connection joins auctions and
\* sends heartbeats, the listing is fetched, the samples of server time
\* arrive, the countdown interval fires, and both clocks run.
NextClient ==
  \/ Connect(ClientSocket)
  \/ \E i \in AuctionIds : JoinAuction(ClientSocket, i)
  \/ Heartbeat(ClientSocket, {client.localNow})
  \/ GetItems
  \/ HandleHeartbeatAck
  \/ HandleAuctionState
  \/ LoadAuctions
  \/ \E i \in AuctionIds : CountdownTick(i)
  \/ ClientTick
  \/ Tick

SpecClient == Init /\ [][NextClient]_vars

\* amounts a client may put in a BID_PLACED payload, in SpecBroadcast
BroadcastAmounts == {Num(60), Num(Huge)}

\* The broadcast of accepted bids: connections come and go, enter and leave
\* the rooms of the registered auctions, and bid on them.
NextBroadcast ==
  \/ \E s \in Sockets : Connect(s)
  \/ \E s \in Sockets : Disconnect(s)
  \/ \E s \in Sockets, i \in AuctionIds : JoinAuction(s, i)
  \/ \E s \in Sockets, i \in AuctionIds : LeaveAuction(s, i)
  \/ \E s \in Sockets, i \in AuctionIds, m \in BroadcastAmounts :
       bidsHandled < MaxRoomBids /\ BidPlaced(s, i, m)
  \/ Tick

SpecBroadcast == Init /\ [][NextBroadcast]_vars

\* Heartbeats beside everything else: connections enter rooms, bid and send
\* heartbeats with a clientTime of any value or none.
NextHeartbeat ==
  \/ \E s \in Sockets : Connect(s)
  \/ \E s \in Sockets, i \in AuctionIds : JoinAuction(s, i)
  \/ \E s \in Sockets, i \in AuctionIds :
       bidsHandled < MaxBids /\ BidPlaced(s, i, Num(60))
  \/ \E s \in Sockets, ct \in ClientTimes : Heartbeat(s, ct)
  \/ Tick

SpecHeartbeat == Init /\ [][NextHeartbeat]_vars

\* amounts a client may put in a BID_PLACED payload, in SpecTwoAuctions:
\* the minimum first bid of the second auction and that of the first
TwoAmounts == {Num(40), Num(60)}

\* Two auctions side by side: clients connect and bid on either while the
\* clock runs.
NextTwoAuctions ==
  \/ \E s \in Sockets : Connect(s)
  \/ \E s \in Sockets, i \in TwoAuctionIds, m \in TwoAmounts :
       bidsHandled < MaxBids /\ BidPlaced(s, i, m)
  \/ Tick

SpecTwoAuctions == InitTwo /\ [][NextTwoAuctions]_vars

\* amounts a client may put in a BID_PLACED payload, in SpecHandlers
HandlerAmounts == {Num(59), Num(60), Num(Huge)}

\* Every handler that reaches an auction: bids from both connections, and
\* the browser's connection entering and leaving the room, sending
\* heartbeats and asking for the state, beside the listing.
NextHandlers ==
  \/ \E s \in Sockets : Connect(s)
  \/ \E i \in AuctionIds : JoinAuction(ClientSocket, i)
  \/ \E i \in AuctionIds : LeaveAuction(ClientSocket, i)
  \/ \E s \in Sockets, i \in AuctionIds, m \in HandlerAmounts :
       bidsHandled < MaxBids /\ BidPlaced(s, i, m)
  \/ Heartbeat(ClientSocket, {})
  \/ \E i \in SentIds : GetAuctionState(ClientSocket, i)
  \/ GetItems
  \/ Tick

SpecHandlers == Init /\ [][NextHandlers]_vars

\* amounts a client may put in a BID_PLACED payload, in SpecRetry: one
\* below and one at the minimum of the first bid and of the second
RetryAmounts == {Num(59), Num(60), Num(69), Num(70)}

\* Bids that follow one another on one auction: two users bid, again and
\* again, while the clock runs.
NextRetry ==
  \/ \E s \in Sockets : Connect(s)
  \/ \E s \in Sockets, i \in AuctionIds, m \in RetryAmounts :
       bidsHandled < MaxBids /\ BidPlaced(s, i, m)
  \/ Tick

SpecRetry == Init /\ [][NextRetry]_vars

\* the connection of another user
OtherSocket == "s2"

\* amounts the other user may put in a BID_PLACED payload, in SpecView
ViewAmounts == {Num(60), Num(70)}

\* an event the browser has a handler for is on its way to it
Pending == ClientSocket \in connected /\ ForClient(last) # <<>>

\* The browser beside another bidder.  The browser fetches the listing
\* when it starts, each card asks to join its auction's room, a click on a
\* card bids, and the other user bids too.  An event sent to the browser
\* arrives before the server handles the next message: what the browser
\* holds once every event has arrived does not depend on when each one
\* did, the socket delivers them in the order they were sent.  The
\* browser's own clock stands still here; its offset follows the samples
\* of server time.
NextView ==
  \/ \E s \in Sockets : ~Pending /\ Connect(s)
  \/ ~Pending /\ Disconnect(ClientSocket)
  \/ DOMAIN client.cards = {} /\ ~Pending /\ GetItems
  \/ LoadAuctions
  \/ \E i \in DOMAIN client.cards : ~Pending /\ JoinAuction(ClientSocket, i)
  \/ \E i \in AuctionIds :
       ~Pending /\ bidsHandled < MaxViewBids /\ BidClick(i)
  \/ \E i \in AuctionIds, m \in ViewAmounts :
       ~Pending /\ bidsHandled < MaxViewBids /\ BidPlaced(OtherSocket, i, m)
  \/ HandleAuctionState
  \/ ReceiveBidEvents
  \/ \E i \in AuctionIds : CountdownTick(i)
  \/ Tick

SpecView == Init /\ [][NextView]_vars

(***************************************************************************)
(* Vocabulary of the properties.                                           *)
(***************************************************************************)
\* the last handler run was a BID_PLACED handler
BidRun == last.handler = "BID_PLACED"

\* this step is the run of a BID_PLACED handler
BidStep == bidsHandled' = bidsHandled + 1

\* BID_PLACED named a registered auction / carried an amount that passes
\* the validation of AuctionService.placeBid
Registered(run) == run.auctionId \in DOMAIN auctions
ValidBid(run) == Registered(run) /\ ~InvalidAmount(run.amount)

\* the auction as the handler run found it
Before(run) == run.before[run.auctionId]

\* the events of one kind among those the handler run emitted
EventsOf(run, kind) ==
  SelectSeq(run.events, LAMBDA e : e.event = kind)

\* the price in force before the k-th accepted bid of auction a
PriceBefore(a, k) ==
  IF k = 1 THEN a.startingPrice ELSE a.bidHistory[k - 1].amount

\* the connections of user u
ConnectionsOf(u) == {s \in connected : UserIdOf(s) = u}

(***************************************************************************)
(* C1-C3: the accepted bids of one auction.                                *)
(***************************************************************************)
\* C1: the amounts of the accepted bids of an auction, in acceptance order,
\* are strictly increasing, and each is at least minBidIncrement above the
\* price in force just before it (the first above startingPrice).
C1_AcceptedBidsIncrease ==
  \A i \in DOMAIN auctions :
    LET a == auctions[i] IN
    \A k \in 1..Len(a.bidHistory) :
      /\ a.bidHistory[k].amount >= PriceBefore(a, k) + a.minBidIncrement
      /\ \A j \in 1..(k - 1) : a.bidHistory[j].amount < a.bidHistory[k].amount

\* Two bids on the same registered auction are handled one right after the
\* other while the auction is active; both satisfy the minimum computed
\* from the price before the first, and neither is at least minBidIncrement
\* above the other.
RacingPair ==
  /\ BidRun /\ BidStep
  /\ last'.auctionId = last.auctionId
  /\ ValidBid(last) /\ ValidBid(last')
  /\ LET a == Before(last)
         x == last.amount.val
         y == last'.amount.val
     IN /\ x >= a.currentBid + a.minBidIncrement
        /\ y >= a.currentBid + a.minBidIncrement
        /\ x < y + a.minBidIncrement
        /\ y < x + a.minBidIncrement
        /\ last'.finish < a.endTime

\* C2: of two racing bids exactly one is accepted, the one handled first.
C2_ExactlyOneOfRacingPairWins ==
  [][RacingPair => (last.result.success /\ ~last'.result.success)]_vars

\* C3: when a bid is rejected because a racing bid was accepted first, the
\* BID_ERROR sent to the loser carries currentBid equal to the newBid of
\* the winning bid.
C3_LoserLearnsWinningBid ==
  [][(RacingPair /\ last.result.success /\ ~last'.result.success)
       => /\ Len(EventsOf(last', "BID_ERROR")) = 1
          /\ EventsOf(last', "BID_ERROR")[1].currentBid
               = {last.result.newBid}]_vars

(***************************************************************************)
(* C4: the boundary of the minimum bid.                                    *)
(***************************************************************************)
\* C4: when the deadline is not reached while the handler runs, a bid of
\* exactly currentBid + minBidIncrement is accepted, and a bid of
\* currentBid + minBidIncrement - 1 is rejected as too low with minimumBid
\* reported equal to currentBid + minBidIncrement.
C4_MinimumBidBoundary ==
  (BidRun /\ ValidBid(last) /\ last.finish < Before(last).endTime) =>
    LET a == Before(last)
        minBid == a.currentBid + a.minBidIncrement
    IN /\ last.amount.val = minBid =>
            /\ last.result.success
            /\ last.result.newBid = minBid
            /\ Len(EventsOf(last, "BID_SUCCESS")) = 1
       /\ last.amount.val = minBid - 1 =>
            /\ ~last.result.success
            /\ last.result.message = "Bid must be at least"
            /\ Len(EventsOf(last, "BID_ERROR")) = 1
            /\ EventsOf(last, "BID_ERROR")[1].minimumBid = {minBid}

\* the first bid was exactly startingPrice + minBidIncrement and was
\* accepted; the last one was one below the next minimum and was rejected
C4_Witness ==
  /\ BidRun /\ ValidBid(last)
  /\ Len(Before(last).bidHistory) = 1
  /\ Before(last).currentBid
       = Before(last).startingPrice + Before(last).minBidIncrement
  /\ last.amount.val
       = Before(last).currentBid + Before(last).minBidIncrement - 1
  /\ ~last.result.success
  /\ last.finish < Before(last).endTime

(***************************************************************************)
(* C5, C6: the deadline.                                                   *)
(***************************************************************************)
\* what a bid that must not be accepted leaves behind: an error answer and
\* no change to any auction; a bid that passes the validation of
\* AuctionService.placeBid is answered 'Auction has ended'
RefusedAsEnded(run) ==
  /\ ~run.result.success
  /\ Len(EventsOf(run, "BID_ERROR")) = 1
  /\ EventsOf(run, "BID_SUCCESS") = <<>>
  /\ EventsOf(run, "BID_UPDATE") = <<>>
  /\ ~InvalidAmount(run.amount) => run.result.message = "Auction has ended"

\* C5: a bid on an auction whose first clock read in the handler (the
\* clock at its start, if it reads none) is at or after endTime is
\* rejected, as ended, and currentBid, highestBidder and bidHistory stay as
\* they were.
C5_NoBidAcceptedFromDeadlineOn ==
  (BidRun /\ Registered(last) /\ last.start >= Before(last).endTime)
    => (RefusedAsEnded(last) /\ auctions = last.before)

\* a bid high enough to win arrived while the clock was before the
\* deadline, was processed at the very deadline instant and was refused
C5_Witness ==
  /\ BidRun /\ ValidBid(last)
  /\ last.start = Before(last).endTime
  /\ last.amount.val >= Before(last).currentBid + Before(last).minBidIncrement
  /\ last.result.message = "Auction has ended"
  /\ Len(Before(last).bidHistory) = 1
  /\ auctions[last.auctionId] = Before(last)

\* C6: once a bid on an auction has been rejected as ended, every later bid
\* on that auction is rejected as ended too and changes nothing.
C6_ClosureIsPermanent ==
  [][(BidStep /\ Registered(last') /\ endedCount[last'.auctionId] > 0)
       => (RefusedAsEnded(last') /\ auctions' = auctions)]_vars

\* a second rejection as ended, of a bid high enough to win
C6_Witness ==
  /\ BidRun /\ ValidBid(last)
  /\ endedCount[last.auctionId] >= 2
  /\ last.result.message = "Auction has ended"
  /\ last.amount.val >= Before(last).currentBid + Before(last).minBidIncrement

(***************************************************************************)
(* C7-C9: bidHistory, currentBid and highestBidder agree.                  *)
(***************************************************************************)
\* C7: the length of an auction's bidHistory equals the number of
\* BID_SUCCESS events emitted for that auction (none for an unknown id).
C7_HistoryCountsSuccesses ==
  \A i \in SentIds :
    successCount[i] = IF i \in DOMAIN auctions
                      THEN Len(auctions[i].bidHistory) ELSE 0

\* one bid was accepted and the next one was refused
C7_Witness ==
  \E i \in DOMAIN auctions :
    /\ Len(auctions[i].bidHistory) = 1
    /\ successCount[i] = 1
    /\ BidRun /\ last.auctionId = i /\ ~last.result.success
    /\ bidsHandled = 2

\* C8: currentBid equals the amount of the last bidHistory entry, or
\* startingPrice when bidHistory is empty.
C8_CurrentBidIsLastAmount ==
  \A i \in DOMAIN auctions :
    LET a == auctions[i] IN
    a.currentBid = IF a.bidHistory = <<>> THEN a.startingPrice
                   ELSE a.bidHistory[Len(a.bidHistory)].amount

\* two bids of different amounts were accepted
C8_Witness ==
  \E i \in DOMAIN auctions :
    /\ Len(auctions[i].bidHistory) = 2
    /\ auctions[i].bidHistory[1].amount # auctions[i].bidHistory[2].amount
    /\ auctions[i].currentBid # auctions[i].startingPrice

\* C9: highestBidder is non-null exactly when bidHistory is non-empty, and
\* then it is the userId of the last bidHistory entry.
C9_LeaderIsLastBidder ==
  \A i \in DOMAIN auctions :
    LET a == auctions[i] IN
    /\ a.highestBidder # NULL <=> a.bidHistory # <<>>
    /\ a.bidHistory # <<>> =>
         a.highestBidder = a.bidHistory[Len(a.bidHistory)].userId

\* two bids of different bidders were accepted
C9_Witness ==
  \E i \in DOMAIN auctions :
    /\ Len(auctions[i].bidHistory) = 2
    /\ auctions[i].bidHistory[1].userId # auctions[i].bidHistory[2].userId

(***************************************************************************)
(* C10: the OUTBID notification.                                           *)
(***************************************************************************)
\* C10: the BID_PLACED handler delivers exactly one OUTBID, to the
\* connections of the previous leader and to no other, when the bid is
\* accepted and makes another bidder the leader; otherwise it delivers no
\* OUTBID.
C10_OutbidReachesPreviousLeader ==
  BidRun =>
    LET outbids == EventsOf(last, "OUTBID")
        due == /\ last.result.success
               /\ last.result.previousBidder # NULL
               /\ last.result.previousBidder # last.userId
    IN IF due
       THEN /\ Len(outbids) = 1
            /\ outbids[1].to = ConnectionsOf(last.result.previousBidder)
       ELSE \A k \in 1..Len(outbids) : outbids[k].to = {}

(***************************************************************************)
(* C11: the leader raises their own bid.                                   *)
(***************************************************************************)
\* C11: when an accepted bid comes from the bidder who was the leader
\* already (previousBidder is the bidder), the handler emits no OUTBID
\* event at all.
C11_NoOutbidForOwnRaise ==
  (BidRun /\ last.result.success
     /\ last.result.previousBidder = last.userId)
    => EventsOf(last, "OUTBID") = <<>>

\* the leader at 60 raised their own bid to 70 and it was accepted
C11_Witness ==
  /\ BidRun /\ last.result.success
  /\ last.result.previousBidder = last.userId
  /\ Before(last).highestBidder = last.userId
  /\ last.result.previousBid < last.result.newBid
  /\ Len(EventsOf(last, "BID_SUCCESS")) = 1

(***************************************************************************)
(* C12, C13: the BID_UPDATE broadcast.                                     *)
(***************************************************************************)
\* the room of the auction a BID_PLACED run named
RoomOf(run) == <<"auction", run.auctionId>>

\* C12: for an accepted bid the handler emits exactly one BID_UPDATE, and
\* its receivers are exactly the connections that are in the auction's room
\* at the broadcast: every member receives it once (rooms are sets: a
\* repeated JOIN_AUCTION adds nothing), no other connection receives it.
C12_BidUpdateReachesRoomOnce ==
  (BidRun /\ last.result.success) =>
    LET ups == EventsOf(last, "BID_UPDATE")
    IN /\ Len(ups) = 1
       /\ ups[1].to = rooms[RoomOf(last)]

\* a bid was accepted while one connection was in the room and another
\* connection was not; the bidder was the one outside
C12_Witness ==
  /\ BidRun /\ last.result.success
  /\ rooms[RoomOf(last)] # {}
  /\ connected \ rooms[RoomOf(last)] # {}
  /\ last.socket \notin rooms[RoomOf(last)]
  /\ EventsOf(last, "BID_UPDATE")[1].to = rooms[RoomOf(last)]

\* C13: of two bids on one auction accepted one right after the other, a
\* connection that is in the room at both broadcasts receives the first
\* BID_UPDATE before the second, and the newBid of the second is greater
\* than the newBid of the first.
C13_UpdatesArriveIncreasing ==
  [][(BidRun /\ BidStep
        /\ last.result.success /\ last'.result.success
        /\ last'.auctionId = last.auctionId)
       => LET first == EventsOf(last, "BID_UPDATE")[1]
              second == EventsOf(last', "BID_UPDATE")[1]
          IN first.to \cap second.to # {}
               => first.newBid < second.newBid]_vars

(***************************************************************************)
(* C14: malformed input.                                                   *)
(***************************************************************************)
\* the last run was a call of AuctionService.placeBid itself
ServiceRun == last.handler = "placeBid"

\* a positive numeric value
PositiveNumber(v) == v.type = "number" /\ v.val # NaN /\ v.val > 0

\* C14: a call of placeBid on a registered auction whose amount is not a
\* positive number (zero, negative, a string, missing, NaN) or whose bidder
\* id is empty is answered 'Invalid bid amount' without success, and the
\* registry stays as it was.
C14_MalformedInputRejected ==
  (ServiceRun /\ Registered(last)
     /\ (~PositiveNumber(last.amount) \/ last.userId = ""))
    => /\ ~last.result.success
       /\ last.result.message = "Invalid bid amount"
       /\ auctions = last.before

(***************************************************************************)
(* C15: every BID_PLACED is answered.                                      *)
(***************************************************************************)
\* the BID_SUCCESS and BID_ERROR events a handler run emitted
Responses(run) ==
  SelectSeq(run.events,
            LAMBDA e : e.event = "BID_SUCCESS" \/ e.event = "BID_ERROR")

\* C15: a BID_PLACED handler run, whatever the payload, ends without an
\* exception and emits exactly one response, BID_SUCCESS or BID_ERROR, to
\* the submitting connection and to no other.
C15_EveryBidAnswered ==
  BidRun => /\ ~Threw(last)
            /\ Len(Responses(last)) = 1
            /\ Responses(last)[1].to = {last.socket}

(***************************************************************************)
(* C16: a bid on an unknown auction.                                       *)
(***************************************************************************)
\* C16: a BID_PLACED naming an id that is not in the registry is answered
\* with one BID_ERROR 'Auction not found', sent to the submitter only; the
\* handler emits nothing else (no BID_UPDATE, no OUTBID, no BID_SUCCESS)
\* and every auction stays as it was.
C16_UnknownAuctionNotFound ==
  (BidRun /\ ~Registered(last)) =>
    /\ ~last.result.success
    /\ Len(last.events) = 1
    /\ last.events[1].event = "BID_ERROR"
    /\ last.events[1].to = {last.socket}
    /\ last.events[1].message = "Auction not found"
    /\ auctions = last.before

\* after a bid was accepted on the registered auction, a bid of an amount
\* that would be valid there named the unknown id
C16_Witness ==
  /\ BidRun /\ ~Registered(last)
  /\ PositiveNumber(last.amount)
  /\ \E i \in DOMAIN auctions : Len(auctions[i].bidHistory) = 1
  /\ last.events[1].message = "Auction not found"

(***************************************************************************)
(* C17: the bid-history query.                                             *)
(***************************************************************************)
\* the last handler run was the bid-history route
HistoryRun == last.handler = "GET /items/:auctionId/bid-history"

\* C17: the bid-history query answers 404 'Auction not found' for an id
\* that is not in the registry, and for a registered id answers 200 with
\* that auction's bidHistory, in acceptance order.
C17_HistoryOrNotFound ==
  HistoryRun =>
    IF last.auctionId \in DOMAIN auctions
    THEN /\ last.status = 200
         /\ last.body.success
         /\ last.body.data = auctions[last.auctionId].bidHistory
    ELSE /\ last.status = 404
         /\ ~last.body.success

(***************************************************************************)
(* C18: client clock data and the server's decisions.                      *)
(***************************************************************************)
\* this step changes client clock data: the browser's clock or offset, or
\* the clientTime of a HEARTBEAT the server handles
ClientClockStep ==
  \/ client' # client
  \/ last'.handler = "HEARTBEAT" /\ last' # last

\* C18: no client clock data reaches a decision of the server.  A step
\* that changes client clock data leaves everything the server holds as it
\* was; and what a BID_PLACED run decides, and the registry it leaves, are
\* those of AuctionService.placeBid applied to the registry, the bidder,
\* the bid and readings of the server clock.  Two runs that differ only in
\* client clock data therefore make the same decisions.
C18_DecisionIgnoresClientClock ==
  [][/\ ClientClockStep => UNCHANGED serverVars
     /\ BidStep =>
          \E t1 \in Reads(clock) : \E t2 \in Reads(t1) : \E t3 \in Reads(t2) :
            LET sp == ServicePlaceBid(auctions, last'.auctionId,
                                      UserIdOf(last'.socket), last'.amount,
                                      clock, t1, t2, t3)
            IN /\ last'.result = sp.result
               /\ auctions' = sp.auctions
               /\ clock' = sp.now]_vars

\* the server has refused a bid as ended while the browser, whose offset a
\* heartbeat has set to a non-zero value, still counts the auction as open
C18_Witness ==
  /\ BidRun /\ ValidBid(last)
  /\ last.result.message = "Auction has ended"
  /\ client.synced
  /\ client.timeOffset # 0
  /\ client.localNow + client.timeOffset < Before(last).endTime

(***************************************************************************)
(* C19, C20: the browser's clock offset and countdown.                     *)
(***************************************************************************)
\* the last handler run was a client handler that took a server time
\* sample: a HEARTBEAT_ACK, an AUCTION_STATE or the listing
SampleHandled ==
  last.handler \in {"handleHeartbeatAck", "handleAuctionState",
                    "loadAuctions"}

\* C19: after the browser has processed a server time sample, its offset
\* is the sample's serverTime minus the local time at which the sample was
\* received, whatever the offset was before.
C19_OffsetIsLastSample ==
  SampleHandled => client.timeOffset = last.serverTime - last.receivedAt

\* a HEARTBEAT_ACK was processed by a browser that held another, non-zero
\* offset from an earlier sample
C19_Witness ==
  /\ last.handler = "handleHeartbeatAck"
  /\ last.before.synced
  /\ last.before.timeOffset # 0
  /\ last.before.timeOffset # client.timeOffset
  /\ client.timeOffset = last.serverTime - last.receivedAt

\* this step computes the countdown of the card of auction i
CountdownComputed(i) ==
  /\ i \in DOMAIN client'.cards
  /\ i \notin DOMAIN client.cards \/ client'.cards[i] # client.cards[i]

\* C20: every countdown the browser computes for a card is the card's
\* endTime minus (local time + offset), and 0 when that is negative; until
\* the first sample has been processed the offset is 0.
C20_CountdownUsesOffset ==
  /\ [](~client.synced => client.timeOffset = 0)
  /\ [][\A i \in AuctionIds :
          CountdownComputed(i) =>
            LET card == client'.cards[i]
                remaining ==
                  card.endTime - (client'.localNow + client'.timeOffset)
            IN card.timeRemaining = IF remaining > 0 THEN remaining ELSE 0]_vars

\* a card shows a running countdown that the offset has changed: it is not
\* what the local clock alone would give
C20_Witness ==
  \E i \in DOMAIN client.cards :
    /\ client.timeOffset # 0
    /\ client.cards[i].timeRemaining > 0
    /\ client.cards[i].timeRemaining
         = client.cards[i].endTime - (client.localNow + client.timeOffset)
    /\ client.cards[i].timeRemaining
         # client.cards[i].endTime - client.localNow

(***************************************************************************)
(* C21: heartbeats.                                                        *)
(***************************************************************************)
\* this step is the run of a HEARTBEAT handler
HeartbeatStep == last'.handler = "HEARTBEAT" /\ last' # last

\* C21: the run of a HEARTBEAT handler emits one event and no other: a
\* HEARTBEAT_ACK to the socket that sent the heartbeat, with the value of
\* the server clock read in the handler and the clientTime of the request
\* (none when the request had none); and it leaves every auction and every
\* room as they were.  A heartbeat that is lost runs no handler.
C21_HeartbeatAnsweredOnce ==
  [][HeartbeatStep =>
       /\ Len(last'.events) = 1
       /\ last'.events[1].event = "HEARTBEAT_ACK"
       /\ last'.events[1].to = {last'.socket}
       /\ clock <= last'.events[1].serverTime
       /\ last'.events[1].serverTime = clock'
       /\ last'.events[1].clientTime = last'.clientTime
       /\ auctions' = auctions
       /\ rooms' = rooms]_vars

\* a heartbeat with a clientTime other than the server's time has been
\* answered while both connections are in the room of an auction that has
\* taken a bid
C21_Witness ==
  /\ last.handler = "HEARTBEAT"
  /\ last.clientTime # {}
  /\ last.events[1].serverTime \notin last.clientTime
  /\ last.events[1].clientTime = last.clientTime
  /\ \E i \in AuctionIds :
       /\ rooms[<<"auction", i>>] = Sockets
       /\ Len(auctions[i].bidHistory) = 1

(***************************************************************************)
(* C22: the bidding lock.                                                  *)
(***************************************************************************)
\* C22: between handler runs no auction holds its bidding lock: it is free
\* when a placeBid call begins and free again when the call has returned,
\* by whichever return; so no BID_PLACED run is answered 'Another bid is
\* being processed'.  A handler runs to its end before the next one
\* starts, so one placeBid call at most is between its read and its write.
C22_LockFreeBetweenCalls ==
  /\ \A i \in DOMAIN auctions : ~auctions[i].biddingLock
  /\ BidRun =>
       last.result.message # "Another bid is being processed, please try again"

\* an auction that has committed a bid has then refused one as ended
\* inside the locked section: the clock passed the deadline between the
\* two isActive() reads
C22_Witness ==
  /\ BidRun /\ ValidBid(last)
  /\ Len(Before(last).bidHistory) >= 1
  /\ last.start < Before(last).endTime
  /\ last.result.message = "Auction has ended"

(***************************************************************************)
(* C23: auctions do not touch each other.                                  *)
(***************************************************************************)
\* C23: a BID_PLACED run on a registered auction, accepted or not, leaves
\* every other auction as it was, lock flag included; and its result and
\* the auction it leaves are those of AuctionService.placeBid on a registry
\* that holds that auction alone, whatever the other auctions have taken.
C23_AuctionsIndependent ==
  (BidRun /\ Registered(last)) =>
    /\ \A j \in DOMAIN auctions \ {last.auctionId} :
         auctions[j] = last.before[j]
    /\ \E t1 \in 0..MaxTime : \E t2 \in t1..MaxTime : \E t3 \in t2..MaxTime :
         LET alone == [k \in {last.auctionId} |-> Before(last)]
             sp == ServicePlaceBid(alone, last.auctionId, last.userId,
                                   last.amount, last.start, t1, t2, t3)
         IN /\ sp.result = last.result
            /\ sp.auctions[last.auctionId] = auctions[last.auctionId]

\* after the first auction has taken a bid of 60 the second accepts a bid
\* of 40, which the first would refuse
C23_Witness ==
  /\ BidRun /\ last.auctionId = SecondId
  /\ last.result.success
  /\ last.amount = Num(40)
  /\ Len(auctions["a1"].bidHistory) = 1
  /\ auctions["a1"].currentBid = 60
  /\ Before(last).bidHistory = <<>>

(***************************************************************************)
(* C24: the broadcast of a committed bid.                                  *)
(***************************************************************************)
\* history h2 is history h1 with entries added at its end, or h1 itself
Extends(h2, h1) ==
  /\ Len(h1) <= Len(h2)
  /\ SubSeq(h2, 1, Len(h1)) = h1

\* C24: the run that accepts a bid emits exactly one BID_UPDATE, to the
\* auction's room, whose newBid and highestBidder are the amount and the
\* bidder the run has committed and whose previousBid and previousBidder
\* are the price and the leader the run found.  The commit and the
\* broadcast are one handler run, which no disconnection can cut in two;
\* and no step, a disconnection of the bidder included, takes an entry out
\* of a bidHistory again.
C24_CommittedBidBroadcast ==
  [][/\ (BidStep /\ last'.result.success) =>
          LET i == last'.auctionId
              ups == EventsOf(last', "BID_UPDATE")
          IN /\ Len(ups) = 1
             /\ ups[1].to = rooms'[<<"auction", i>>]
             /\ ups[1].newBid = last'.amount.val
             /\ ups[1].highestBidder = last'.userId
             /\ ups[1].previousBid = auctions[i].currentBid
             /\ ups[1].previousBidder = auctions[i].highestBidder
             /\ auctions'[i].currentBid = ups[1].newBid
             /\ auctions'[i].highestBidder = ups[1].highestBidder
     /\ \A i \in DOMAIN auctions :
          Extends(auctions'[i].bidHistory, auctions[i].bidHistory)]_vars

\* a member of the room has outbid a leader whose connection is gone: the
\* BID_UPDATE names the leader and the price that leader had committed
C24_Witness ==
  /\ BidRun /\ last.result.success
  /\ last.socket \in rooms[RoomOf(last)]
  /\ Len(auctions[last.auctionId].bidHistory) = 2
  /\ EventsOf(last, "BID_UPDATE")[1].previousBidder
       = Before(last).bidHistory[1].userId
  /\ EventsOf(last, "BID_UPDATE")[1].previousBidder # last.userId
  /\ ConnectionsOf(EventsOf(last, "BID_UPDATE")[1].previousBidder) = {}

(***************************************************************************)
(* C25, C26: entering and leaving a room.                                  *)
(***************************************************************************)
\* this step is the run of a JOIN_AUCTION handler
JoinStep == last'.handler = "JOIN_AUCTION" /\ last' # last

\* C25: the run of a JOIN_AUCTION handler for a registered auction puts the
\* socket in the auction's room and emits exactly one AUCTION_STATE, to
\* that socket alone, whose snapshot has the currentBid and highestBidder
\* the auction holds at that moment (those of the last bid accepted before
\* the run) and whose serverTime is the server clock read in the run.
C25_JoinAnsweredWithState ==
  [][(JoinStep /\ last'.auctionId \in DOMAIN auctions) =>
       LET i == last'.auctionId
           st == EventsOf(last', "AUCTION_STATE")
       IN /\ rooms'[<<"auction", i>>] = rooms[<<"auction", i>>] \cup {last'.socket}
          /\ Len(st) = 1
          /\ st[1].to = {last'.socket}
          /\ st[1].auction.id = i
          /\ st[1].auction.currentBid = auctions[i].currentBid
          /\ st[1].auction.highestBidder = auctions[i].highestBidder
          /\ clock <= st[1].serverTime
          /\ st[1].serverTime = clock']_vars

\* a connection has joined an auction that another user leads after an
\* accepted bid, while the other connection is connected too
C25_Witness ==
  /\ last.handler = "JOIN_AUCTION" /\ Registered(last)
  /\ connected = Sockets
  /\ Len(auctions[last.auctionId].bidHistory) = 1
  /\ EventsOf(last, "AUCTION_STATE")[1].auction.currentBid
       = auctions[last.auctionId].bidHistory[1].amount
  /\ EventsOf(last, "AUCTION_STATE")[1].auction.highestBidder
       # UserIdOf(last.socket)
  /\ EventsOf(last, "AUCTION_STATE")[1].to = {last.socket}

\* C26: the run of a LEAVE_AUCTION handler leaves the socket outside the
\* auction's room and a disconnection leaves it outside every room; only a
\* run of the socket's own JOIN_AUCTION (or its connection, for the room
\* named by its id) puts a socket in a room; and the BID_UPDATE of an
\* accepted bid goes to no socket outside the auction's room.  A socket
\* that has left or has disconnected therefore receives no BID_UPDATE for a
\* bid accepted later, until it has joined again.
C26_NoUpdateAfterLeaving ==
  [][/\ (last'.handler = "LEAVE_AUCTION" /\ last' # last) =>
          last'.socket \notin rooms'[<<"auction", last'.auctionId>>]
     /\ (last'.handler = "disconnect" /\ last' # last) =>
          \A r \in RoomNames : last'.socket \notin rooms'[r]
     /\ \A s \in Sockets, r \in RoomNames :
          (s \in rooms'[r] /\ s \notin rooms[r]) =>
            /\ last'.handler \in {"JOIN_AUCTION", "connection"}
            /\ last'.socket = s
     /\ (BidStep /\ last'.result.success) =>
          \A k \in 1..Len(last'.events) :
            last'.events[k].event = "BID_UPDATE" =>
              last'.events[k].to \subseteq rooms[RoomOf(last')]]_vars

\* a member of the room of an auction that has taken a bid has left it and
\* is still connected; the other connection stays in the room
C26_Witness ==
  /\ last.handler = "LEAVE_AUCTION" /\ Registered(last)
  /\ last.wasMember
  /\ last.socket \in connected
  /\ last.socket \notin rooms[RoomOf(last)]
  /\ rooms[RoomOf(last)] # {}
  /\ Len(auctions[last.auctionId].bidHistory) = 1
  /\ bidsHandled < MaxRoomBids

(***************************************************************************)
(* C30: what an auction keeps for life.                                    *)
(***************************************************************************)
\* C30: every auction has the id, title, startingPrice, endTime and
\* minBidIncrement it was created with, and a currentBid that is not below
\* its startingPrice; and no step (a bid, a join, a leave, a heartbeat, a
\* state query) changes one of the five or lowers currentBid.
C30_FixedFieldsAndRisingPrice ==
  /\ [](\A i \in DOMAIN auctions :
          /\ auctions[i].id = i
          /\ auctions[i].title = SampleItems[i].title
          /\ auctions[i].startingPrice = SampleItems[i].startingPrice
          /\ auctions[i].endTime = Duration
          /\ auctions[i].minBidIncrement = 10
          /\ NumLe(auctions[i].startingPrice, auctions[i].currentBid))
  /\ [][\A i \in DOMAIN auctions :
          /\ auctions'[i].id = auctions[i].id
          /\ auctions'[i].title = auctions[i].title
          /\ auctions'[i].startingPrice = auctions[i].startingPrice
          /\ auctions'[i].endTime = auctions[i].endTime
          /\ auctions'[i].minBidIncrement = auctions[i].minBidIncrement
          /\ NumLe(auctions[i].currentBid, auctions'[i].currentBid)]_vars

\* the state of an auction that has taken two bids is asked for by a
\* connection that is in its room
C30_Witness ==
  /\ last.handler = "GET_AUCTION_STATE" /\ Registered(last)
  /\ last.socket \in rooms[RoomOf(last)]
  /\ Len(auctions[last.auctionId].bidHistory) = 2
  /\ auctions[last.auctionId].currentBid > auctions[last.auctionId].startingPrice
  /\ last.events[1].auction.endTime = Duration

(***************************************************************************)
(* C27: what a subscribed browser shows.                                   *)
(***************************************************************************)
\* C27: when no event is on its way to the browser, the browser shows, for
\* every auction whose room its connection is in, the currentBid and the
\* highestBidder the server holds.  The connection is in the room from its
\* JOIN_AUCTION until it leaves or disconnects, and the AUCTION_STATE that
\* answered the join has arrived by then; so two browsers of which this
\* holds show the same price and leader.
C27_SubscribedViewIsCurrent ==
  ~Pending =>
    \A i \in DOMAIN client.cards :
      ClientSocket \in rooms[<<"auction", i>>] =>
        /\ client.auctions[i].currentBid = auctions[i].currentBid
        /\ client.auctions[i].highestBidder = auctions[i].highestBidder

\* the browser, in the room since before the first bid, has received the
\* BID_UPDATE of the other user's second bid
C27_Witness ==
  /\ last.handler = "bid events"
  /\ ClientSocket \in rooms[<<"auction", last.auctionId>>]
  /\ Len(auctions[last.auctionId].bidHistory) = 2
  /\ Len(last.received) = 1
  /\ client.auctions[last.auctionId].currentBid = 70
  /\ client.auctions[last.auctionId].highestBidder = UserIdOf(OtherSocket)
  /\ last.before.auctions[last.auctionId].highestBidder = ClientUserId

(***************************************************************************)
(* C28: the browser's bid after a BID_ERROR.                               *)
(***************************************************************************)
\* C28: the bid a click offers right after the browser has received a
\* BID_ERROR for that auction is not below the minimumBid the error
\* reported and is above the currentBid it reported.
C28_NextBidAdoptsReportedMinimum ==
  [][(/\ BidStep
      /\ last'.socket = ClientSocket
      /\ last.handler = "bid events"
      /\ last.auctionId = last'.auctionId) =>
       \A k \in 1..Len(last.received) :
         last.received[k].event = "BID_ERROR" =>
           /\ \A m \in last.received[k].minimumBid :
                NumLe(m, last'.amount.val)
           /\ \A b \in last.received[k].currentBid :
                NumLt(b, last'.amount.val)]_vars

(***************************************************************************)
(* C29: the winning indicator.                                             *)
(***************************************************************************)
\* C29: when no event is on its way to the browser, userBids[auctionId] is
\* true only if the auction's highestBidder is the browser's userId: the
\* indicator a winning bid has set is cleared once the bid of another
\* bidder has been accepted.
C29_IndicatorFollowsLeader ==
  ~Pending =>
    \A i \in DOMAIN client.userBids :
      client.userBids[i] = TRUE => auctions[i].highestBidder = ClientUserId

(***************************************************************************)
(* C31, C40: the snapshot of getState().                                   *)
(***************************************************************************)
\* the auctions a handler run has sent a snapshot of: those of the
\* listing, and that of an AUCTION_STATE for a registered auction
SnapshotIds(run) ==
  IF run.handler = "GET /items" THEN DOMAIN run.body.data
  ELSE IF /\ run.handler \in {"JOIN_AUCTION", "GET_AUCTION_STATE"}
          /\ run.auctionId \in DOMAIN auctions
  THEN {run.auctionId}
  ELSE {}

\* the snapshot of auction i among them
Snapshot(run, i) ==
  IF run.handler = "GET /items" THEN run.body.data[i]
  ELSE run.events[1].auction

\* this step is a handler run that has sent a snapshot
SnapshotStep == last' # last /\ SnapshotIds(last') # {}

\* the price and the leader of snapshot st are those of the last bid the
\* auction has committed, or the starting price and nobody
SamePair(st) ==
  LET h == auctions[st.id].bidHistory
  IN IF h = <<>>
     THEN st.currentBid = st.startingPrice /\ st.highestBidder = NULL
     ELSE /\ st.currentBid = h[Len(h)].amount
          /\ st.highestBidder = h[Len(h)].userId

\* C31, as stated: a snapshot has timeRemaining = endTime - now and
\* isActive = (now < endTime) for values now of the server clock during the
\* run, and its currentBid and highestBidder are those of one committed
\* bid.
C31_SnapshotAsStated ==
  [][SnapshotStep =>
       \A i \in SnapshotIds(last') : LET st == Snapshot(last', i) IN
         /\ \E now \in clock..clock' : st.timeRemaining = st.endTime - now
         /\ \E now \in clock..clock' : st.isActive = (now < st.endTime)
         /\ SamePair(st)]_vars

\* C31, amended: timeRemaining is endTime - now while that is positive and
\* 0 from the deadline on; the rest as stated.
C31_SnapshotClamped ==
  [][SnapshotStep =>
       \A i \in SnapshotIds(last') : LET st == Snapshot(last', i) IN
         /\ \E now \in clock..clock' :
              st.timeRemaining =
                IF st.endTime - now > 0 THEN st.endTime - now ELSE 0
         /\ \E now \in clock..clock' : st.isActive = (now < st.endTime)
         /\ SamePair(st)]_vars

\* a snapshot of an auction that has committed two bids was taken after
\* the deadline
C31_Witness ==
  \E i \in SnapshotIds(last) : LET st == Snapshot(last, i) IN
    /\ Len(auctions[st.id].bidHistory) = 2
    /\ st.currentBid = auctions[st.id].bidHistory[2].amount
    /\ st.highestBidder = auctions[st.id].bidHistory[2].userId
    /\ st.timeRemaining = 0
    /\ ~st.isActive
    /\ clock > st.endTime

\* C40: in every snapshot a handler run has sent, isActive is true exactly
\* when timeRemaining is greater than 0.
C40_ActiveIffTimeRemains ==
  \A i \in SnapshotIds(last) :
    Snapshot(last, i).isActive <=> Snapshot(last, i).timeRemaining > 0

(***************************************************************************)
(* C32: a bid refused as too low, and the bid after it.                    *)
(***************************************************************************)
\* the run refused its bid as too low
TooLow(run) == ~run.result.success /\ "minimumBid" \in DOMAIN run.result

\* C32: a run that refuses a bid as too low leaves every auction as it was
\* and emits a BID_ERROR and neither BID_UPDATE nor OUTBID; and the bid
\* handled right after it on the same auction, if it is at least the
\* minimumBid that run reported and every clock read of its own run falls
\* before the deadline, is accepted.
C32_TooLowThenRetry ==
  [][/\ (BidStep /\ TooLow(last')) =>
          /\ auctions' = auctions
          /\ Len(EventsOf(last', "BID_ERROR")) = 1
          /\ EventsOf(last', "BID_UPDATE") = <<>>
          /\ EventsOf(last', "OUTBID") = <<>>
     /\ (/\ BidRun /\ TooLow(last)
         /\ BidStep
         /\ last'.auctionId = last.auctionId
         /\ NumLe(last.result.minimumBid, last'.amount.val)
         /\ last'.finish < auctions[last.auctionId].endTime) =>
          last'.result.success]_vars

\* the first bid handled was refused as too low (it was not accepted and
\* not refused as ended) and the second, of 60 on the price of 50 still in
\* force, has been accepted
C32_Witness ==
  /\ BidRun /\ last.result.success
  /\ last.amount = Num(60)
  /\ Before(last).currentBid = 50
  /\ Before(last).bidHistory = <<>>
  /\ bidsHandled = 2
  /\ successCount[last.auctionId] = 1
  /\ endedCount[last.auctionId] = 0

(***************************************************************************)
(* C33: the order of the checks.                                           *)
(***************************************************************************)
\* C33: a bid with a valid amount below the minimum, on a registered
\* auction whose deadline the first clock read of the run has reached, is
\* answered 'Auction has ended' and carries no minimumBid; and a bid that
\* names an auction that is not in the registry is answered 'Auction not
\* found', whatever its amount, valid or not.
C33_EndedBeforeTooLowNotFoundFirst ==
  /\ (/\ BidRun /\ ValidBid(last)
      /\ BelowMinimum(last.amount.val, getMinimumNextBid(Before(last)))
      /\ last.start >= Before(last).endTime) =>
       /\ last.result.message = "Auction has ended"
       /\ ~TooLow(last)
  /\ (BidRun /\ ~Registered(last)) =>
       last.result.message = "Auction not found"

\* a bid of 59 on a price of 50 was handled after the deadline
C33_Witness ==
  /\ BidRun /\ Registered(last)
  /\ last.amount = Num(59)
  /\ Before(last).bidHistory = <<>>
  /\ last.start > Before(last).endTime
  /\ last.result.message = "Auction has ended"

(***************************************************************************)
(* C34: the leader raises their own bid.                                   *)
(***************************************************************************)
\* the bidder of the handler run was already the highest bidder
LeaderBidsAgain(run) ==
  /\ ValidBid(run)
  /\ Before(run).highestBidder = run.userId

C35_UnknownJoinAddsNoMember ==
  [][(JoinStep /\ last'.auctionId \notin DOMAIN auctions)
       => rooms' = rooms]_vars

(***************************************************************************)
(* C39: the timestamps of bidHistory.                                      *)
(***************************************************************************)
\* C39 (first half): every bidHistory entry's timestamp is strictly less
\* than the auction's endTime.
C39_TimestampsBeforeDeadline ==
  \A i \in DOMAIN auctions :
    \A k \in 1..Len(auctions[i].bidHistory) :
      auctions[i].bidHistory[k].timestamp < auctions[i].endTime

\* C39 (second half): the timestamps of bidHistory are non-decreasing in
\* history order.
C39_TimestampsNonDecreasing ==
  \A i \in DOMAIN auctions :
    \A k \in 1..Len(auctions[i].bidHistory) - 1 :
      auctions[i].bidHistory[k].timestamp
        <= auctions[i].bidHistory[k + 1].timestamp

(***************************************************************************)
(* C38: the bid button and the countdown.                                  *)
(***************************************************************************)
\* C38: a card refuses bid clicks exactly while its countdown is expired;
\* a card whose countdown shows time remaining, also after having shown
\* none, accepts them.
C38_DisabledExactlyWhileExpired ==
  \A i \in DOMAIN client.cards :
    ~CardAcceptsBid(client, i) <=> client.cards[i].isExpired

(***************************************************************************)
(* C36, C37: the browser's socket across renders of the Dashboard.         *)
(***************************************************************************)
\* The Dashboard has rendered again and the effects of that render have not
\* run yet: the listing was stored (setAuctions, syncServerTime), or the
\* socket of the browser reported 'connect' or 'disconnect' (setConnected).
\* The userId is the same in every render.
RenderPending ==
  \/ last.handler = "loadAuctions"
  \/ last.handler \in {"connection", "disconnect"} /\ last.socket = ClientSocket

\* emit(event, data) sends only if socketRef.current?.connected
emit(up, ids) == IF up THEN ids ELSE {}

\* The effects of a render of the Dashboard.  socketEventHandlers is a new
\* object in every render, so the connection effect of useSocket, which
\* depends on it, runs again: its cleanup calls socket.disconnect(), upon
\* which the server takes the socket out of every room, and its body opens
\* a new socket with io(), which connects later.  The join effect of a
\* card runs in the render that mounted the card and in no other one (its
\* dependencies do not change); it runs before the cleanup or after it,
\* depending on the version of React, and a JOIN_AUCTION that it sent over
\* the old socket gives a membership that ends with that socket.
RenderEffects ==
  /\ RenderPending
  /\ \E cleanupFirst \in BOOLEAN :
       LET up == ClientSocket \in connected
           mounted == IF last.handler = "loadAuctions"
                      THEN DOMAIN client.cards \ DOMAIN last.before.cards
                      ELSE {}
           sent == emit(up /\ ~cleanupFirst, mounted)
       IN /\ connected' = connected \ {ClientSocket}
          /\ rooms' = [r \in RoomNames |-> rooms[r] \ {ClientSocket}]
          /\ last' = [handler |-> "useSocket effect",
                      socket |-> ClientSocket,
                      replaced |-> up,
                      mounted |-> mounted,
                      sent |-> sent,
                      events |-> <<>>]
  /\ UNCHANGED client
  /\ UNCHANGED <<auctions, clock, bidsHandled, successCount, endedCount>>

\* The browser's socket: the page fetches the listing once, its socket
\* connects whenever it is not connected, the network may drop it, the
\* effects of a render run before the next message is handled, and
\* another user connects and enters and leaves the rooms.
NextSocket ==
  \/ \E s \in Sockets : ~RenderPending /\ Connect(s)
  \/ \E s \in Sockets : ~RenderPending /\ Disconnect(s)
  \/ DOMAIN client.cards = {} /\ ~RenderPending /\ GetItems
  \/ LoadAuctions
  \/ RenderEffects
  \/ \E i \in AuctionIds : ~RenderPending /\ JoinAuction(OtherSocket, i)
  \/ \E i \in AuctionIds : ~RenderPending /\ LeaveAuction(OtherSocket, i)
  \/ Tick

SpecSocket == Init /\ [][NextSocket]_vars

\* The effects of a render do run, a socket that is not connected does
\* connect (io() and its reconnection), and the response of the fetch
\* arrives.
SpecSocketLive ==
  /\ SpecSocket
  /\ WF_vars(RenderEffects)
  /\ WF_vars(~RenderPending /\ Connect(ClientSocket))
  /\ WF_vars(DOMAIN client.cards = {} /\ ~RenderPending /\ GetItems)
  /\ WF_vars(LoadAuctions)

\* this step is the run of the effects of a render of the Dashboard
EffectStep == last'.handler = "useSocket effect" /\ last' # last

\* C36: the effects of a render of the Dashboard, whose userId has not
\* changed, leave the browser's socket connected if it was and leave every
\* room as it was.
C36_RenderKeepsSocket ==
  [][EffectStep => (connected' = connected /\ rooms' = rooms)]_vars

\* C37: whenever the card of an auction is mounted, the browser's socket
\* is, then or later, a member of the room of that auction.
C37_MountedCardJoinsRoom ==
  \A i \in AuctionIds :
    [](i \in DOMAIN client.cards
         => <>(ClientSocket \in rooms[<<"auction", i>>]))

====
